---- MODULE Spec2Model ----
(***************************************************************************)
(* Model of localhost_mcp (src/server.py): the three tools fetch_url,      *)
(* fetch_localhost and check_ports, the shared make_request pipeline and  *)
(* the httpx client they call.                                            *)
(*                                                                         *)
(* Strings are run-length encoded character sequences (a sequence of runs *)
(* [ch, n] in which neighbouring runs differ in ch and n >= 1), so that a  *)
(* body of more than MAX_CONTENT_LENGTH characters is an ordinary value.   *)
(***************************************************************************)
EXTENDS Integers, Sequences, FiniteSets, TLC

\* ------------------------------------------------------------------------
\* Python values
\* ------------------------------------------------------------------------

\* Optional[...]: None, or a value
None == [some |-> FALSE]
Some(v) == [some |-> TRUE, v |-> v]

Run(c, n) == [ch |-> c, n |-> n]

\* str + str
TCat(a, b) ==
    IF a = <<>> THEN b
    ELSE IF b = <<>> THEN a
    ELSE IF a[Len(a)].ch = b[1].ch
         THEN SubSeq(a, 1, Len(a) - 1)
              \o <<Run(b[1].ch, a[Len(a)].n + b[1].n)>>
              \o Tail(b)
         ELSE a \o b

\* a string literal, written as the sequence of its characters
RECURSIVE Chars(_)
Chars(cs) ==
    IF cs = <<>> THEN <<>> ELSE TCat(<<Run(Head(cs), 1)>>, Chars(Tail(cs)))

\* len(s) of a str: the number of characters
RECURSIVE TLen(_)
TLen(t) == IF t = <<>> THEN 0 ELSE t[1].n + TLen(Tail(t))

\* s[:k]
RECURSIVE TTake(_, _)
TTake(t, k) ==
    IF t = <<>> \/ k <= 0 THEN <<>>
    ELSE IF t[1].n >= k THEN <<Run(t[1].ch, k)>>
    ELSE <<t[1]>> \o TTake(Tail(t), k - t[1].n)

\* s.startswith(c) for a one-character c
StartsWith(t, c) == t # <<>> /\ t[1].ch = c

LowerCase == <<"a", "b", "c", "d", "e", "f", "g", "h", "i", "j", "k", "l", "m",
               "n", "o", "p", "q", "r", "s", "t", "u", "v", "w", "x", "y", "z",
               "\\u00e9">>
UpperCase == <<"A", "B", "C", "D", "E", "F", "G", "H", "I", "J", "K", "L", "M",
               "N", "O", "P", "Q", "R", "S", "T", "U", "V", "W", "X", "Y", "Z",
               "\\u00c9">>

UpperOf(c) ==
    IF \E i \in DOMAIN LowerCase : LowerCase[i] = c
    THEN UpperCase[CHOOSE i \in DOMAIN LowerCase : LowerCase[i] = c]
    ELSE c

LowerOf(c) ==
    IF \E i \in DOMAIN UpperCase : UpperCase[i] = c
    THEN LowerCase[CHOOSE i \in DOMAIN UpperCase : UpperCase[i] = c]
    ELSE c

\* s.upper()
RECURSIVE Upper(_)
Upper(t) ==
    IF t = <<>> THEN <<>>
    ELSE TCat(<<Run(UpperOf(t[1].ch), t[1].n)>>, Upper(Tail(t)))

\* s.lower()
RECURSIVE Lower(_)
Lower(t) ==
    IF t = <<>> THEN <<>>
    ELSE TCat(<<Run(LowerOf(t[1].ch), t[1].n)>>, Lower(Tail(t)))

WhiteSpace == {" ", "\n", "\t"}

\* s.strip(): leading and trailing whitespace removed
RECURSIVE LStrip(_)
LStrip(t) ==
    IF t # <<>> /\ t[1].ch \in WhiteSpace THEN LStrip(Tail(t)) ELSE t

RECURSIVE RStrip(_)
RStrip(t) ==
    IF t # <<>> /\ t[Len(t)].ch \in WhiteSpace
    THEN RStrip(SubSeq(t, 1, Len(t) - 1))
    ELSE t

Strip(t) == RStrip(LStrip(t))

\* the number of bytes of one character in the encoded (UTF-8) body
Width(c) == IF c \in {"\\u00e9", "\\u00c9"} THEN 2 ELSE 1

\* len(b) of the bytes a text encodes to
RECURSIVE ByteLen(_)
ByteLen(t) == IF t = <<>> THEN 0 ELSE t[1].n * Width(t[1].ch) + ByteLen(Tail(t))

Digits == <<"0", "1", "2", "3", "4", "5", "6", "7", "8", "9">>

\* str(n) for an int n >= 0, as f"{n}" formats it
RECURSIVE IntStr(_)
IntStr(n) ==
    IF n < 10 THEN <<Run(Digits[n + 1], 1)>>
    ELSE TCat(IntStr(n \div 10), <<Run(Digits[(n % 10) + 1], 1)>>)

\* str(x) for a float x with an integral value, as f"{x}" formats it
FloatStr(n) == TCat(IntStr(n), Chars(<<".", "0">>))

\* ------------------------------------------------------------------------
\* Formatted output.  An f-string is the concatenation of its literal pieces
\* (Lit), its newlines (NL) and the values it interpolates (Val).
\* ------------------------------------------------------------------------

Lit(s) == [k |-> "lit", s |-> s, t |-> <<>>]
Val(t) == [k |-> "val", s |-> "", t |-> t]
NL == [k |-> "nl", s |-> "", t |-> <<>>]

\* sep.join(items) for the separator "\n"
RECURSIVE JoinNL(_)
JoinNL(items) ==
    IF items = <<>> THEN <<>>
    ELSE IF Len(items) = 1 THEN items[1]
    ELSE items[1] \o <<NL>> \o JoinNL(Tail(items))

\* s.split("\n"), for a formatted string whose values hold no newline
RECURSIVE SplitNL(_)
SplitNL(s) ==
    IF \A i \in DOMAIN s : s[i] # NL THEN <<s>>
    ELSE LET i == CHOOSE j \in DOMAIN s :
                      s[j] = NL /\ \A l \in 1..(j - 1) : s[l] # NL
         IN  <<SubSeq(s, 1, i - 1)>> \o SplitNL(SubSeq(s, i + 1, Len(s)))

\* ------------------------------------------------------------------------
\* httpx
\* ------------------------------------------------------------------------

\* the classes an exception of the given class is an instance of
Bases(type) ==
    CASE type = "ConnectError" ->
           {"ConnectError", "NetworkError", "TransportError", "RequestError",
            "HTTPError", "Exception"}
      [] type = "ReadError" ->
           {"ReadError", "NetworkError", "TransportError", "RequestError",
            "HTTPError", "Exception"}
      [] type = "ConnectTimeout" ->
           {"ConnectTimeout", "TimeoutException", "TransportError",
            "RequestError", "HTTPError", "Exception"}
      [] type = "ReadTimeout" ->
           {"ReadTimeout", "TimeoutException", "TransportError",
            "RequestError", "HTTPError", "Exception"}
      [] type = "UnsupportedProtocol" ->
           {"UnsupportedProtocol", "TransportError", "RequestError",
            "HTTPError", "Exception"}
      [] type = "TooManyRedirects" ->
           {"TooManyRedirects", "RequestError", "HTTPError", "Exception"}
      [] type = "HTTPStatusError" ->
           {"HTTPStatusError", "HTTPError", "Exception"}
      [] OTHER -> {type, "Exception"}

IsInstance(e, class) == class \in Bases(e.type)

\* the outcome of awaiting one call of the client: a response, or an
\* exception raised
Returned(r) == [raised |-> FALSE, response |-> r]
Raised(type, msg, r) ==
    [raised |-> TRUE, type |-> type, msg |-> msg, response |-> r]

\* Response.raise_for_status(): HTTPStatusError for a 4xx or 5xx response
RaiseForStatus(o) ==
    IF ~o.raised /\ o.response.status >= 400
    THEN Raised("HTTPStatusError", Chars(<<"s", "t", "a", "t", "u", "s">>),
                o.response)
    ELSE o

\* Headers.items(): the (key, value) items of the headers; keys are lower
\* case, and a key that occurs several times has its values concatenated
\* into one comma separated value
RECURSIVE ItemsInto(_, _)
ItemsInto(acc, list) ==
    IF list = <<>> THEN acc
    ELSE LET key == Lower(list[1].key)
             value == list[1].value
         IN  IF \E i \in DOMAIN acc : acc[i].key = key
             THEN LET i == CHOOSE j \in DOMAIN acc : acc[j].key = key
                  IN  ItemsInto(
                        [acc EXCEPT ![i].value =
                            TCat(TCat(@, Chars(<<",", " ">>)), value)],
                        Tail(list))
             ELSE ItemsInto(Append(acc, [key |-> key, value |-> value]),
                            Tail(list))

Items(headers) == ItemsInto(<<>>, headers)

\* Headers.get(key, default)
HeadersGet(headers, key, default) ==
    LET items == Items(headers)
    IN  IF \E i \in DOMAIN items : items[i].key = Lower(key)
        THEN items[CHOOSE i \in DOMAIN items : items[i].key = Lower(key)].value
        ELSE default

\* ------------------------------------------------------------------------
\* server.py: configuration and make_request
\* ------------------------------------------------------------------------

DEFAULT_TIMEOUT == 30
MAX_CONTENT_LENGTH == 500000

POST == Chars(<<"P", "O", "S", "T">>)
PUT == Chars(<<"P", "U", "T">>)
PATCH == Chars(<<"P", "A", "T", "C", "H">>)
GET == Chars(<<"G", "E", "T">>)

\* bool(body) of an Optional[str]
Truthy(body) == body.some /\ body.v # <<>>

\* the keyword arguments make_request prepares for client.request
KwargsAnyMethod(method, headers, body) ==
    [headers |-> IF headers.some THEN headers.v ELSE {},
     content |-> IF Truthy(body) THEN Some(body.v) ELSE None]

Kwargs(method, headers, body) ==
    [headers |-> IF headers.some THEN headers.v ELSE {},
     content |-> IF Truthy(body) /\ Upper(method) \in {POST, PUT, PATCH}
                 THEN Some(body.v)
                 ELSE None]

\* client.request(method.upper(), url, **kwargs) on
\* AsyncClient(timeout=timeout, follow_redirects=True)
Request(url, method, headers, body, timeout) ==
    [method |-> Upper(method), url |-> url,
     headers |-> Kwargs(method, headers, body).headers,
     content |-> Kwargs(method, headers, body).content,
     timeout |-> timeout, follow_redirects |-> TRUE]

\* f"\n\n... [TRUNCATED - Response exceeded {MAX_CONTENT_LENGTH} bytes]"
Notice ==
    TCat(TCat(Chars(<<"\n", "\n", ".", ".", ".", " ", "[", "T", "R", "U", "N",
                      "C", "A", "T", "E", "D", " ", "-", " ", "R", "e", "s",
                      "p", "o", "n", "s", "e", " ", "e", "x", "c", "e", "e",
                      "d", "e", "d", " ">>),
              IntStr(MAX_CONTENT_LENGTH)),
         Chars(<<" ", "b", "y", "t", "e", "s", "]">>))

\* the body text make_request shows for response.text
TruncateFrom(text) ==
    IF TLen(text) >= MAX_CONTENT_LENGTH
    THEN TCat(TTake(text, MAX_CONTENT_LENGTH), Notice)
    ELSE text

Truncate(text) ==
    IF TLen(text) > MAX_CONTENT_LENGTH
    THEN TCat(TTake(text, MAX_CONTENT_LENGTH), Notice)
    ELSE text

\* len(response.content): the number of raw bytes of the body
ContentLen(response) == ByteLen(response.text)

\* the line of three backquotes that opens and closes the literal block (a
\* backquote cannot be written in a string here)
Fence == Lit("[backquote x3]")

\* the "- key: value" lines of the report
RECURSIVE HeaderLines(_)
HeaderLines(items) ==
    IF items = <<>> THEN <<>>
    ELSE <<Lit("- "), Val(items[1].key), Lit(": "), Val(items[1].value), NL>>
         \o HeaderLines(Tail(items))

\* the report of a response
FormatResponse(url, response) ==
    <<Lit("## Response from "), Val(url), NL,
      NL,
      Lit("**Status:** "), Val(IntStr(response.status)), Lit(" "),
      Val(response.reason), NL,
      Lit("**Content-Type:** "),
      Val(HeadersGet(response.headers,
                     Chars(<<"c", "o", "n", "t", "e", "n", "t", "-",
                             "t", "y", "p", "e">>),
                     Chars(<<"u", "n", "k", "n", "o", "w", "n">>))), NL,
      Lit("**Content-Length:** "), Val(IntStr(ContentLen(response))),
      Lit(" bytes"), NL,
      NL,
      Lit("### Headers"), NL>>
    \o HeaderLines(Items(response.headers))
    \o <<NL,
         Lit("### Body"), NL,
         NL,
         Fence, NL,
         Val(Truncate(response.text)), NL,
         Fence>>

\* how a call ends: it returns a value, or an exception leaves it
Return(value) == [kind |-> "return", value |-> value, type |-> ""]
Propagate(e) == [kind |-> "raise", value |-> <<>>, type |-> e.type]
Pending == [kind |-> "pending", value |-> <<>>, type |-> ""]

\* the except clauses of make_request, in their order
HandleExceptionNoCatchAll(url, timeout, e) ==
    IF IsInstance(e, "ConnectError")
    THEN Return(<<Lit("**Connection Error:** Could not connect to "),
                  Val(url), NL, NL,
                  Lit("Make sure the server is running. Error: "),
                  Val(e.msg)>>)
    ELSE IF IsInstance(e, "TimeoutException")
    THEN Return(<<Lit("**Timeout:** Request to "), Val(url),
                  Lit(" timed out after "), Val(FloatStr(timeout)),
                  Lit(" seconds")>>)
    ELSE IF IsInstance(e, "HTTPStatusError")
    THEN Return(<<Lit("**HTTP Error:** "), Val(IntStr(e.response.status)),
                  Lit(" - "), Val(e.response.reason)>>)
    ELSE Propagate(e)

HandleException(url, timeout, e) ==
    IF IsInstance(e, "ConnectError")
    THEN Return(<<Lit("**Connection Error:** Could not connect to "),
                  Val(url), NL, NL,
                  Lit("Make sure the server is running. Error: "),
                  Val(e.msg)>>)
    ELSE IF IsInstance(e, "TimeoutException")
    THEN Return(<<Lit("**Timeout:** Request to "), Val(url),
                  Lit(" timed out after "), Val(FloatStr(timeout)),
                  Lit(" seconds")>>)
    ELSE IF IsInstance(e, "HTTPStatusError")
    THEN Return(<<Lit("**HTTP Error:** "), Val(IntStr(e.response.status)),
                  Lit(" - "), Val(e.response.reason)>>)
    ELSE IF IsInstance(e, "Exception")
    THEN Return(<<Lit("**Error:** "), Lit(e.type), Lit(": "), Val(e.msg)>>)
    ELSE Propagate(e)

\* what make_request does with the outcome of its await: the try body after
\* the request, or the except clause of the exception
MakeRequestReturnRaising(url, timeout, o) ==
    IF RaiseForStatus(o).raised
    THEN HandleException(url, timeout, RaiseForStatus(o))
    ELSE Return(FormatResponse(url, o.response))

MakeRequestReturn(url, timeout, o) ==
    IF o.raised
    THEN HandleException(url, timeout, o)
    ELSE Return(FormatResponse(url, o.response))

\* where make_request goes once its await has an outcome: every path of the
\* try statement returns
MakeRequestNextRetry(o) == IF o.raised THEN "request" ELSE "return"

MakeRequestNext(o) == "return"

\* ------------------------------------------------------------------------
\* server.py: the input models and the tools
\* ------------------------------------------------------------------------

\* str_strip_whitespace=True on an Optional[str] field
StripOpt(x) == IF x.some THEN Some(Strip(x.v)) ELSE None

\* FetchUrlInput(**raw): the fields after validation
FetchUrlInput(raw) ==
    [url |-> Strip(raw.url), method |-> Strip(raw.method),
     headers |-> raw.headers, body |-> StripOpt(raw.body),
     timeout |-> raw.timeout]

\* the constraints of FetchUrlInput: url min_length=1, timeout ge=1, le=120
ValidFetchUrlInput(p) ==
    TLen(p.url) >= 1 /\ p.timeout >= 1 /\ p.timeout <= 120

\* FetchLocalhostInput(**raw): the fields after validation
FetchLocalhostInput(raw) ==
    [port |-> raw.port, path |-> Strip(raw.path), method |-> Strip(raw.method),
     headers |-> raw.headers, body |-> StripOpt(raw.body)]

\* the constraints of FetchLocalhostInput: port ge=1, le=65535
ValidFetchLocalhostInput(p) == p.port >= 1 /\ p.port <= 65535

\* "http://localhost:"
LocalhostPrefix ==
    Chars(<<"h", "t", "t", "p", ":", "/", "/", "l", "o", "c", "a", "l", "h",
            "o", "s", "t", ":">>)

\* path = params.path if params.path.startswith("/") else f"/{params.path}"
NormPathAlways(path) == TCat(Chars(<<"/">>), path)

NormPath(path) ==
    IF StartsWith(path, "/") THEN path ELSE TCat(Chars(<<"/">>), path)

\* url = f"http://localhost:{params.port}{path}"
LocalhostUrl(port, path) ==
    TCat(TCat(LocalhostPrefix, IntStr(port)), NormPath(path))

\* ------------------------------------------------------------------------
\* server.py: check_ports
\* ------------------------------------------------------------------------

common_ports == <<3000, 3001, 4000, 5000, 5173, 5174, 8000, 8080, 8888>>

\* the first element of results: "## Local Port Scan Results\n"
ScanHeader == <<Lit("## Local Port Scan Results"), NL>>

\* client.get(f"http://localhost:{port}/") on AsyncClient(timeout=2.0)
ProbeRequest(port) ==
    [method |-> GET,
     url |-> TCat(TCat(LocalhostPrefix, IntStr(port)), Chars(<<"/">>)),
     headers |-> {}, content |-> None,
     timeout |-> 2, follow_redirects |-> FALSE]

\* the status text of one port, from the outcome of its probe (the symbols
\* that open the texts are written by their code points)
StatusLabelTransport(o) ==
    IF ~o.raised
    THEN <<Lit("U+2705 **OPEN** - Status "), Val(IntStr(o.response.status))>>
    ELSE IF IsInstance(o, "TransportError")
    THEN <<Lit("U+274C Closed/Not responding")>>
    ELSE IF IsInstance(o, "TimeoutException")
    THEN <<Lit("U+23F3 Timeout (might be busy)")>>
    ELSE <<Lit("U+26A0 U+FE0F Error: "), Lit(o.type)>>

StatusLabel(o) ==
    IF ~o.raised
    THEN <<Lit("U+2705 **OPEN** - Status "), Val(IntStr(o.response.status))>>
    ELSE IF IsInstance(o, "ConnectError")
    THEN <<Lit("U+274C Closed/Not responding")>>
    ELSE IF IsInstance(o, "TimeoutException")
    THEN <<Lit("U+23F3 Timeout (might be busy)")>>
    ELSE <<Lit("U+26A0 U+FE0F Error: "), Lit(o.type)>>

\* results.append(f"- **Port {port}:** {status}")
RecordProbeOpenOnly(results, port, o) ==
    IF o.raised THEN results
    ELSE Append(results,
                <<Lit("- **Port "), Val(IntStr(port)), Lit(":** ")>>
                \o StatusLabel(o))

RecordProbe(results, port, o) ==
    Append(results,
           <<Lit("- **Port "), Val(IntStr(port)), Lit(":** ")>>
           \o StatusLabel(o))

\* the positions of common_ports whose probe starts when the loop reaches
\* position i: the loop awaits one client.get per iteration
ProbesToStartAll(i) ==
    [k \in 1..(Len(common_ports) - i + 1) |-> i + k - 1]

ProbesToStart(i) == IF i <= Len(common_ports) THEN <<i>> ELSE <<>>

\* the position the for loop goes to after the probe of position i
NextPosition(i, o) == i + 1

\* ------------------------------------------------------------------------
\* The inputs of the tools and the outcomes of the client
\* ------------------------------------------------------------------------

\* the longest header list of a response
MaxHeaders == 2

\* the most probes of one scan that end otherwise than in a refused
\* connection
MaxAnswering == 2

RawUrls ==
    {TCat(LocalhostPrefix, IntStr(9999)),
     TCat(Chars(<<" ">>), TCat(LocalhostPrefix, Chars(<<"1", "/", "\n">>))),
     Chars(<<" ", " ">>)}

RawMethods ==
    {GET, Chars(<<"p", "o", "s", "t">>), Chars(<<" ", "P", "u", "t", " ">>),
     PATCH, Chars(<<"P", "O", "S", "T", "S">>)}

RawLocalhostMethods == {GET, Chars(<<"p", "o", "s", "t">>)}

RawBodies == {None, Some(Chars(<<" ">>)), Some(Chars(<<"{", "}", "\n">>))}

RawHeaders ==
    {None,
     Some({[key |-> Chars(<<"A", "c", "c", "e", "p", "t">>),
            value |-> Chars(<<"*", "/", "*">>)]})}

RawTimeouts == {0, 5, 121}

RawPorts == {0, 3000, 65535, 65536}

RawPaths ==
    {Chars(<<"/">>), <<>>,
     Chars(<<"a", "p", "i", "/", "u", "s", "e", "r", "s">>),
     Chars(<<"/", "a", "p", "i">>), Chars(<<" ", "x">>)}

RawFetchUrl ==
    [url : RawUrls, method : RawMethods, headers : RawHeaders,
     body : RawBodies, timeout : RawTimeouts]

RawFetchLocalhost ==
    [port : RawPorts, path : RawPaths, method : RawLocalhostMethods,
     headers : {None}, body : RawBodies]

StatusLines ==
    {[status |-> 200, reason |-> Chars(<<"O", "K">>)],
     [status |-> 404,
      reason |-> Chars(<<"N", "o", "t", " ", "F", "o", "u", "n", "d">>)]}

HeaderFields ==
    {[key |-> Chars(<<"S", "e", "t", "-", "C", "o", "o", "k", "i", "e">>),
      value |-> Chars(<<"a">>)],
     [key |-> Chars(<<"s", "e", "t", "-", "c", "o", "o", "k", "i", "e">>),
      value |-> Chars(<<"b">>)],
     [key |-> Chars(<<"C", "o", "n", "t", "e", "n", "t", "-", "T", "y", "p",
                      "e">>),
      value |-> Chars(<<"a">>)]}

HeaderLists ==
    UNION {[1..n -> HeaderFields] : n \in 0..MaxHeaders}

Texts ==
    {<<>>,
     <<Run("a", MAX_CONTENT_LENGTH)>>,
     <<Run("a", MAX_CONTENT_LENGTH + 1)>>,
     <<Run("a", MAX_CONTENT_LENGTH - 1), Run("\n", 2)>>,
     <<Run("\\u00e9", MAX_CONTENT_LENGTH - 1), Run("a", 2)>>,
     <<Run("\\u00e9", 300000)>>}

Responses ==
    {[status |-> l.status, reason |-> l.reason, headers |-> h, text |-> t] :
        l \in StatusLines, h \in HeaderLists, t \in Texts}

\* the response field of an exception that carries none
NoResponse == [status |-> 0, reason |-> <<>>, headers |-> <<>>, text |-> <<>>]

Messages == {<<>>, Chars(<<"f", "a", "i", "l", "e", "d">>)}

\* what awaiting client.request can end in: no call of raise_for_status is
\* made, so no HTTPStatusError is among the exceptions
RequestOutcomes ==
    {Returned(r) : r \in Responses}
    \cup {Raised(t, m, NoResponse) :
            t \in {"ConnectError", "ConnectTimeout", "ReadTimeout",
                   "ReadError", "TooManyRedirects", "UnsupportedProtocol",
                   "TypeError"},
            m \in Messages}

\* what awaiting client.get of one port can end in
ProbeOutcomes ==
    {Returned([status |-> l.status, reason |-> l.reason, headers |-> <<>>,
               text |-> <<>>]) : l \in StatusLines}
    \cup {Raised(t, <<>>, NoResponse) :
            t \in {"ConnectError", "ReadTimeout", "ReadError"}}

\* ------------------------------------------------------------------------
\* The state machine: one tool call at a time, split at its awaits
\* ------------------------------------------------------------------------

VARIABLES
    pc,        \* "idle", "request" (make_request awaits client.request),
               \* "scan" (check_ports awaits client.get), "done"
    tool,      \* the tool that was called
    params,    \* its validated input
    calls,     \* the requests handed to the client by this call, in order
    inflight,  \* the positions in calls that have no outcome yet
    outcomes,  \* the outcomes so far, in order: [call, o]
    results,   \* check_ports: the list results
    result     \* what the tool call ended in

vars == <<pc, tool, params, calls, inflight, outcomes, results, result>>

NoParams == [url |-> <<>>, timeout |-> 0]

Init ==
    /\ pc = "idle"
    /\ tool = "none"
    /\ params = NoParams
    /\ calls = <<>>
    /\ inflight = {}
    /\ outcomes = <<>>
    /\ results = <<>>
    /\ result = Pending

\* fetch_url(params), up to the await of make_request
FetchUrl(raw) ==
    /\ pc = "idle"
    /\ ValidFetchUrlInput(FetchUrlInput(raw))
    /\ LET p == FetchUrlInput(raw)
       IN  /\ params' = p
           /\ calls' = <<Request(p.url, p.method, p.headers, p.body,
                                 p.timeout)>>
    /\ tool' = "fetch_url"
    /\ inflight' = {1}
    /\ pc' = "request"
    /\ UNCHANGED <<outcomes, results, result>>

\* fetch_localhost(params), up to the await of make_request
FetchLocalhost(raw) ==
    /\ pc = "idle"
    /\ ValidFetchLocalhostInput(FetchLocalhostInput(raw))
    /\ LET p == FetchLocalhostInput(raw)
       IN  /\ params' = p
           /\ calls' = <<Request(LocalhostUrl(p.port, p.path), p.method,
                                 p.headers, p.body, DEFAULT_TIMEOUT)>>
    /\ tool' = "fetch_localhost"
    /\ inflight' = {1}
    /\ pc' = "request"
    /\ UNCHANGED <<outcomes, results, result>>

\* make_request from the outcome of its await to its return
RequestCompletes(o) ==
    /\ pc = "request"
    /\ inflight = {Len(calls)}
    /\ outcomes' = Append(outcomes, [call |-> Len(calls), o |-> o])
    /\ IF MakeRequestNext(o) = "return"
       THEN /\ result' = MakeRequestReturn(calls[Len(calls)].url,
                                           calls[Len(calls)].timeout, o)
            /\ inflight' = {}
            /\ pc' = "done"
            /\ UNCHANGED calls
       ELSE /\ calls' = Append(calls, calls[Len(calls)])
            /\ inflight' = {Len(calls) + 1}
            /\ UNCHANGED <<pc, result>>
    /\ UNCHANGED <<tool, params, results>>

\* the requests of the probes of the given positions of common_ports
ProbeRequests(positions) ==
    [k \in DOMAIN positions |-> ProbeRequest(common_ports[positions[k]])]

\* check_ports(), up to its first await
CheckPorts ==
    /\ pc = "idle"
    /\ tool' = "check_ports"
    /\ results' = <<ScanHeader>>
    /\ calls' = ProbeRequests(ProbesToStart(1))
    /\ inflight' = DOMAIN ProbeRequests(ProbesToStart(1))
    /\ pc' = "scan"
    /\ UNCHANGED <<params, outcomes, result>>

\* the position in common_ports of the port a probe request is for
PositionOf(req) ==
    CHOOSE i \in DOMAIN common_ports : ProbeRequest(common_ports[i]) = req

\* the number of outcomes that are not a refused connection
Answering(os) ==
    Cardinality({k \in DOMAIN os : ~(os[k].o.raised
                                      /\ IsInstance(os[k].o, "ConnectError"))})

\* check_ports from the outcome of one await to the next await, or to the
\* return after the last port
ProbeCompletes(o) ==
    /\ pc = "scan"
    /\ ~(o.raised /\ IsInstance(o, "ConnectError"))
         => Answering(outcomes) < MaxAnswering
    /\ \E c \in inflight :
         LET i == PositionOf(calls[c])
             next == NextPosition(i, o)
             new == ProbeRequests(ProbesToStart(next))
         IN  /\ results' = RecordProbe(results, common_ports[i], o)
             /\ outcomes' = Append(outcomes, [call |-> c, o |-> o])
             /\ calls' = calls \o new
             /\ inflight' = (inflight \ {c})
                              \cup {Len(calls) + k : k \in DOMAIN new}
             /\ IF next > Len(common_ports)
                THEN /\ result' = Return(JoinNL(results'))
                     /\ pc' = "done"
                ELSE UNCHANGED <<pc, result>>
    /\ UNCHANGED <<tool, params>>

\* the tool call is over; nothing of it is kept for the next call
ToolReturns ==
    /\ pc = "done"
    /\ pc' = "idle"
    /\ tool' = "none"
    /\ params' = NoParams
    /\ calls' = <<>>
    /\ inflight' = {}
    /\ outcomes' = <<>>
    /\ results' = <<>>
    /\ result' = Pending

Next ==
    \/ pc = "idle" /\ \E raw \in RawFetchUrl : FetchUrl(raw)
    \/ pc = "idle" /\ \E raw \in RawFetchLocalhost : FetchLocalhost(raw)
    \/ pc = "request" /\ \E o \in RequestOutcomes : RequestCompletes(o)
    \/ CheckPorts
    \/ pc = "scan" /\ \E o \in ProbeOutcomes : ProbeCompletes(o)
    \/ ToolReturns

Spec == Init /\ [][Next]_vars

\* ------------------------------------------------------------------------
\* Reading a report back
\* ------------------------------------------------------------------------

Fetching == tool \in {"fetch_url", "fetch_localhost"}

\* the outcome the finished call of make_request got
TheOutcome == outcomes[Len(outcomes)].o

\* the position of the first part of a report that equals the given part
FirstAt(report, part) ==
    CHOOSE i \in DOMAIN report :
        report[i] = part /\ \A j \in 1..(i - 1) : report[j] # part

\* the body text between the two fences of a report of a response
BodyOf(report) == report[FirstAt(report, Fence) + 2].t

\* the number shown after "**Content-Length:** "
ContentLengthOf(report) ==
    report[FirstAt(report, Lit("**Content-Length:** ")) + 1].t

\* the parts of a report between its "### Headers" line and the empty line
\* before "### Body"
HeaderSectionOf(report) ==
    SubSeq(report, FirstAt(report, Lit("### Headers")) + 2,
           FirstAt(report, Lit("### Body")) - 2)

\* a text holds at least one literal piece that is not empty
Descriptive(report) ==
    \E i \in DOMAIN report : report[i].k = "lit" /\ report[i].s # ""

\* ------------------------------------------------------------------------
\* Claims
\* ------------------------------------------------------------------------

\* C1: whatever the HTTP call of fetch_url or fetch_localhost fails with
\* (connection failure, timeout, HTTP status error, any other error), the
\* tool returns a non-empty descriptive text and no exception leaves it.
C1_ErrorsBecomeText ==
    /\ (pc = "done" /\ Fetching) =>
          /\ result.kind = "return"
          /\ result.value # <<>>
          /\ Descriptive(result.value)
    /\ (pc = "request" /\ Fetching) =>
          \A t \in {"ConnectError", "ConnectTimeout", "ReadTimeout",
                    "ReadError", "TooManyRedirects", "UnsupportedProtocol",
                    "HTTPStatusError", "TypeError", "ValueError"} :
            \A r \in {NoResponse} \cup
                     {[status |-> l.status, reason |-> l.reason,
                       headers |-> <<>>, text |-> <<>>] : l \in StatusLines} :
              LET res == MakeRequestReturn(calls[1].url, calls[1].timeout,
                                           Raised(t, <<>>, r))
              IN  /\ res.kind = "return"
                  /\ res.value # <<>>
                  /\ Descriptive(res.value)

\* C1 witness: a request failed with an error that is neither a connection
\* failure nor a timeout and that has an empty message, and the tool
\* returned a text
C1_Witness ==
    /\ pc = "done" /\ Fetching
    /\ TheOutcome.raised
    /\ TheOutcome.type = "ReadError"
    /\ TheOutcome.msg = <<>>
    /\ result.kind = "return"

\* C2: a non-empty body is part of the request handed to the client exactly
\* when the upper-cased method is POST, PUT or PATCH; otherwise the request
\* is handed over without a body and nothing is raised.
C2_BodyInclusion ==
    (Fetching /\ Truthy(params.body)) =>
       /\ Len(calls) >= 1
       /\ calls[1].method = Upper(params.method)
       /\ (calls[1].content = Some(params.body.v))
             <=> (Upper(params.method) \in {POST, PUT, PATCH})
       /\ (Upper(params.method) \notin {POST, PUT, PATCH})
             => calls[1].content = None
       /\ result.kind # "raise"

\* C2 witness: a body sent with the method "post" in lower case reached the
\* client
C2_Witness ==
    /\ pc = "request" /\ tool = "fetch_url"
    /\ params.method = Chars(<<"p", "o", "s", "t">>)
    /\ Truthy(params.body)
    /\ calls[1].content = Some(params.body.v)

\* the line of one port, as the claims C3 and C4 describe its start
BulletStart(port) == <<Lit("- **Port "), Val(IntStr(port)), Lit(":** ")>>

\* C3: the report of check_ports is the header line, then (after the empty
\* line that ends the header) exactly nine bullet lines, one per port in the
\* order of the fixed list, whatever the probes ended in; while the scan
\* runs, every outcome so far has added exactly one line.
C3_ScanOrder ==
    /\ (tool = "check_ports") => Len(results) = 1 + Len(outcomes)
    /\ (pc = "done" /\ tool = "check_ports") =>
          LET lines == SplitNL(result.value)
              bullets == SubSeq(lines, 3, Len(lines))
          IN  /\ result.kind = "return"
              /\ lines[1] = <<Lit("## Local Port Scan Results")>>
              /\ lines[2] = <<>>
              /\ Len(bullets) = 9
              /\ <<3000, 3001, 4000, 5000, 5173, 5174, 8000, 8080, 8888>>
                   = common_ports
              /\ \A i \in 1..9 :
                   SubSeq(bullets[i], 1, 3) = BulletStart(common_ports[i])

\* C3 witness: a finished scan in which one probe timed out and another got
\* a response
C3_Witness ==
    /\ pc = "done" /\ tool = "check_ports"
    /\ \E k \in DOMAIN outcomes :
         outcomes[k].o.raised /\ outcomes[k].o.type = "ReadTimeout"
    /\ \E k \in DOMAIN outcomes : ~outcomes[k].o.raised

\* the status text the claim C4 gives for an outcome
Expected(o) ==
    IF ~o.raised
    THEN <<Lit("U+2705 **OPEN** - Status "), Val(IntStr(o.response.status))>>
    ELSE IF o.type = "ConnectError"
    THEN <<Lit("U+274C Closed/Not responding")>>
    ELSE IF o.type \in {"ReadTimeout", "ConnectTimeout"}
    THEN <<Lit("U+23F3 Timeout (might be busy)")>>
    ELSE <<Lit("U+26A0 U+FE0F Error: "), Lit(o.type)>>

\* C4: the line of each port shows OPEN with the status code for a response,
\* Closed for a connection failure, Timeout for a timeout and Error with the
\* error kind otherwise, decided by the outcome of that port's probe alone.
C4_PortLabels ==
    (tool = "check_ports") =>
       \A k \in DOMAIN outcomes :
          /\ k + 1 \in DOMAIN results
          /\ results[k + 1] =
                BulletStart(common_ports[PositionOf(calls[outcomes[k].call])])
                \o Expected(outcomes[k].o)

\* C4 witness: the scan in which only port 5173 answers, with status 200
C4_Witness ==
    /\ pc = "done" /\ tool = "check_ports"
    /\ Len(outcomes) = 9
    /\ \A k \in DOMAIN outcomes :
         IF common_ports[k] = 5173
         THEN ~outcomes[k].o.raised /\ outcomes[k].o.response.status = 200
         ELSE outcomes[k].o.raised /\ outcomes[k].o.type = "ConnectError"

\* C5: a response text of more than 500,000 characters is shown as its first
\* 500,000 characters followed by the truncation notice, a shorter one is
\* shown whole, and the Content-Length shown is the number of raw bytes of
\* the response in both cases.
C5_Truncation ==
    (pc = "done" /\ Fetching /\ ~TheOutcome.raised) =>
       LET text == TheOutcome.response.text
           body == BodyOf(result.value)
       IN  /\ TLen(text) > 500000 =>
                /\ TTake(body, 500000) = TTake(text, 500000)
                /\ body = TCat(TTake(text, 500000), Notice)
                /\ TLen(body) = 500000 + TLen(Notice)
           /\ TLen(text) <= 500000 => body = text
           /\ ContentLengthOf(result.value) = IntStr(ByteLen(text))

\* C5 witness: a response of 500,001 characters and 1,000,000 bytes was
\* rendered
C5_Witness ==
    /\ pc = "done" /\ Fetching /\ ~TheOutcome.raised
    /\ TLen(TheOutcome.response.text) = 500001
    /\ ByteLen(TheOutcome.response.text) = 1000000
    /\ TLen(BodyOf(result.value)) = 500000 + TLen(Notice)
    /\ ContentLengthOf(result.value) = IntStr(1000000)

\* C6: fetch_localhost requests http://localhost:<port><norm(path)>, where
\* norm(path) is path when it starts with "/" and "/" + path otherwise; norm
\* applied twice is norm applied once; port 3000 with path "api/users" gives
\* http://localhost:3000/api/users.
C6_PathNormalization ==
    (tool = "fetch_localhost") =>
       LET path == params.path
           norm == IF path # <<>> /\ path[1].ch = "/"
                   THEN path
                   ELSE TCat(<<Run("/", 1)>>, path)
       IN  /\ calls[1].url =
                 TCat(TCat(LocalhostPrefix, IntStr(params.port)), norm)
           /\ NormPath(path) = norm
           /\ NormPath(NormPath(path)) = NormPath(path)
           /\ (params.port = 3000
               /\ path = Chars(<<"a", "p", "i", "/", "u", "s", "e", "r", "s">>))
              => calls[1].url =
                   TCat(LocalhostPrefix,
                        Chars(<<"3", "0", "0", "0", "/", "a", "p", "i", "/",
                                "u", "s", "e", "r", "s">>))

\* C6 witness: port 3000 with the path "api/users" was requested
C6_Witness ==
    /\ pc = "request" /\ tool = "fetch_localhost"
    /\ params.port = 3000
    /\ params.path = Chars(<<"a", "p", "i", "/", "u", "s", "e", "r", "s">>)
    /\ calls[1].url =
         TCat(LocalhostPrefix,
              Chars(<<"3", "0", "0", "0", "/", "a", "p", "i", "/", "u", "s",
                      "e", "r", "s">>))

\* C7: the report of a response has one "- key: value" line for every header
\* of the response, in response order, a header name that occurs n times
\* giving n lines.
C7_HeaderLinePerHeader ==
    (pc = "done" /\ Fetching /\ ~TheOutcome.raised) =>
       LET headers == TheOutcome.response.headers
           section == HeaderSectionOf(result.value)
       IN  /\ Len(section) = 5 * Len(headers)
           /\ \A i \in DOMAIN headers :
                /\ section[5 * i - 4] = Lit("- ")
                /\ Lower(section[5 * i - 3].t) = Lower(headers[i].key)
                /\ section[5 * i - 1] = Val(headers[i].value)

\* C8: one call of fetch_url or fetch_localhost hands exactly one request to
\* the client and ends in one text, also when the request failed; one call
\* of check_ports hands over exactly one probe per port of the fixed list.
C8_NoRetries ==
    /\ Fetching =>
          /\ Len(calls) = 1
          /\ pc = "done" => Len(outcomes) = 1 /\ result.kind = "return"
    /\ (tool = "check_ports") =>
          /\ Len(calls) <= 9
          /\ \A i, j \in DOMAIN calls : calls[i] = calls[j] => i = j
          /\ pc = "done" =>
                /\ Len(calls) = 9
                /\ \A i \in 1..9 :
                     \E j \in DOMAIN calls :
                        calls[j] = ProbeRequest(common_ports[i])

\* C8 witness: a request that timed out ended the call with one request made
C8_Witness ==
    /\ pc = "done" /\ Fetching
    /\ TheOutcome.raised /\ TheOutcome.type = "ConnectTimeout"
    /\ Len(calls) = 1
    /\ result.value[1] = Lit("**Timeout:** Request to ")

\* C9: a response the client returns is rendered as a response whatever its
\* status code, and no call ends in the "HTTP Error" message.
C9_StatusPassThrough ==
    (pc = "done" /\ Fetching) =>
       /\ \A i \in DOMAIN result.value :
             result.value[i] # Lit("**HTTP Error:** ")
       /\ ~TheOutcome.raised =>
             /\ result.kind = "return"
             /\ SubSeq(result.value, 1, 2) =
                   <<Lit("## Response from "), Val(calls[1].url)>>
             /\ SubSeq(result.value, 5, 8) =
                   <<Lit("**Status:** "),
                     Val(IntStr(TheOutcome.response.status)), Lit(" "),
                     Val(TheOutcome.response.reason)>>
             /\ BodyOf(result.value) # <<>>
                   <=> TheOutcome.response.text # <<>>

\* C9 witness: a response with status 404 was rendered as a response
C9_Witness ==
    /\ pc = "done" /\ Fetching /\ ~TheOutcome.raised
    /\ TheOutcome.response.status = 404
    /\ result.value[1] = Lit("## Response from ")
    /\ result.value[6] = Val(Chars(<<"4", "0", "4">>))

\* C10: check_ports has at most one probe in flight; the probes start in the
\* order of the fixed list, each one only after the outcome of the one before
\* it has been recorded in results.
C10_SequentialProbing ==
    (tool = "check_ports") =>
       /\ Cardinality(inflight) <= 1
       /\ \A j \in DOMAIN calls : calls[j] = ProbeRequest(common_ports[j])
       /\ Len(calls) = Len(outcomes) + Cardinality(inflight)
       /\ Len(results) = 1 + Len(outcomes)
       /\ inflight # {} => inflight = {Len(outcomes) + 1}
       /\ \A k \in DOMAIN outcomes : outcomes[k].call = k

\* C10 witness: the probe of the fifth port is in flight after the probes of
\* the four ports before it ended, one of them in an error
C10_Witness ==
    /\ pc = "scan"
    /\ Len(outcomes) = 4
    /\ outcomes[2].o.raised /\ outcomes[2].o.type = "ReadError"
    /\ inflight = {5}
    /\ calls[5] = ProbeRequest(5173)

====
